---- MODULE Spec2Model ----
(***************************************************************************)
(* Resume_Merger: the merge pipeline of services/merger.py behind the      *)
(* /api/merge endpoint of main.py.                                         *)
(*                                                                         *)
(* Python str values are sequences of one-character strings, so that       *)
(* lower(), strip(), comparison and the similarity ratio are computed and  *)
(* not assumed.  Python floats in [0,1] (Skill.confidence) are integers in *)
(* hundredths.  An Optional value that is None is the value None below.    *)
(***************************************************************************)
EXTENDS Integers, Sequences, FiniteSets, TLC

\* ------------------------------------------------------------------ str

\* Python None for Optional[str] fields: a sequence that is no string over
\* the alphabet, so it compares (unequal) with every str.
None == <<"<None>">>

\* ord(c) for the characters the model uses (Unicode code points).
Ord(c) ==
  CASE c = " " -> 32
    [] c = "0" -> 48
    [] c = "1" -> 49
    [] c = "2" -> 50
    [] c = "9" -> 57
    [] c = "A" -> 65
    [] c = "B" -> 66
    [] c = "J" -> 74
    [] c = "_" -> 95
    [] c = "a" -> 97
    [] c = "b" -> 98
    [] c = "c" -> 99
    [] c = "j" -> 106
    [] c = "x" -> 120
    [] c = "y" -> 121
    [] c = "|" -> 124

\* str.lower() on one character.
LowerChar(c) ==
  CASE c = "A" -> "a"
    [] c = "B" -> "b"
    [] c = "J" -> "j"
    [] OTHER -> c

\* str.lower()
Lower(s) == [i \in 1..Len(s) |-> LowerChar(s[i])]

IsSpace(c) == c = " "

RECURSIVE LStrip(_)
LStrip(s) == IF s # <<>> /\ IsSpace(Head(s)) THEN LStrip(Tail(s)) ELSE s

RECURSIVE RStrip(_)
RStrip(s) ==
  IF s # <<>> /\ IsSpace(s[Len(s)]) THEN RStrip(SubSeq(s, 1, Len(s) - 1)) ELSE s

\* str.strip()
Strip(s) == RStrip(LStrip(s))

\* name.lower().strip(): the canonical key of a skill or a project.
Normalize(name) == Strip(Lower(name))

\* s < t for Python str: by code point, a proper prefix is smaller.
RECURSIVE StrLess(_, _)
StrLess(s, t) ==
  IF t = <<>> THEN FALSE
  ELSE IF s = <<>> THEN TRUE
  ELSE IF Ord(Head(s)) # Ord(Head(t)) THEN Ord(Head(s)) < Ord(Head(t))
  ELSE StrLess(Tail(s), Tail(t))

\* truthiness of a Python str or None (None and "" are falsy).
Truthy(s) == s # None /\ s # <<>>

\* x or d
OrElse(x, d) == IF Truthy(x) THEN x ELSE d

\* -------------------------------------------------------------- rapidfuzz

\* Length of a longest common subsequence.
RECURSIVE LCS(_, _)
LCS(s, t) ==
  IF s = <<>> \/ t = <<>> THEN 0
  ELSE IF Head(s) = Head(t) THEN 1 + LCS(Tail(s), Tail(t))
  ELSE LET a == LCS(Tail(s), t)
           b == LCS(s, Tail(t))
       IN IF a >= b THEN a ELSE b

\* fuzz.ratio(s, t) as the exact fraction <<num, den>>: the normalized Indel
\* similarity 100 * (1 - (|s| + |t| - 2 LCS) / (|s| + |t|)); 100 for two
\* empty strings.
Ratio(s, t) ==
  IF Len(s) + Len(t) = 0 THEN <<100, 1>>
  ELSE <<200 * LCS(s, t), Len(s) + Len(t)>>

\* score >= cutoff, for a score <<num, den>> and an integer cutoff.
ScoreAtLeast(score, cutoff) == score[1] >= cutoff * score[2]

\* a > b for two scores.
ScoreGreater(a, b) == a[1] * b[2] > b[1] * a[2]

\* process.extractOne(query, keys, scorer=fuzz.ratio, score_cutoff=threshold),
\* with no processor (the strings are compared as passed):
\* the index in keys of the first key with the highest score among those
\* scoring >= threshold, or 0 for the result None.  best is the index found
\* so far among keys[1..i-1].
RECURSIVE ExtractOneFrom(_, _, _, _, _)
ExtractOneFrom(query, keys, threshold, i, best) ==
  IF i > Len(keys) THEN best
  ELSE LET score == Ratio(query, keys[i])
           better == /\ ScoreAtLeast(score, threshold)
                     /\ \/ best = 0
                        \/ ScoreGreater(score, Ratio(query, keys[best]))
       IN ExtractOneFrom(query, keys, threshold, i + 1, IF better THEN i ELSE best)

ExtractOne(query, keys, threshold) == ExtractOneFrom(query, keys, threshold, 1, 0)

\* ---------------------------------------------------------------- schemas

PersonalFields == {"name", "email", "phone", "location", "linkedin", "github", "website"}

\* PersonalInfo(): every field None.
EmptyPersonalInfo == [f \in PersonalFields |-> None]

\* MergeSettings defaults.
DefaultMaxSkills == 30
DefaultThreshold == 85
AllSections == <<"personal_info", "skills", "experience", "education", "projects">>

MkSettings(sections, max_skills, sort_by, threshold) ==
  [include_sections |-> sections, max_skills |-> max_skills,
   sort_experience_by |-> sort_by, deduplicate_threshold |-> threshold]

DefaultSettings == MkSettings(AllSections, DefaultMaxSkills, "date", DefaultThreshold)

MkSkill(name, category, frequency, confidence) ==
  [name |-> name, category |-> category, frequency |-> frequency,
   confidence |-> confidence]

MkExperience(title, company, location, start_date, current) ==
  [title |-> title, company |-> company, location |-> location,
   start_date |-> start_date, end_date |-> None, current |-> current,
   description |-> <<>>, technologies |-> <<>>]

MkEducation(degree, institution) ==
  [degree |-> degree, institution |-> institution, location |-> None,
   graduation_date |-> None, gpa |-> None]

MkProject(name, description, technologies) ==
  [name |-> name, description |-> description, technologies |-> technologies,
   url |-> None]

MkResume(personal_info, skills, experience, education, projects) ==
  [personal_info |-> personal_info, summary |-> None, skills |-> skills,
   experience |-> experience, education |-> education, projects |-> projects,
   certifications |-> <<>>, languages |-> <<>>]

\* ------------------------------------------------- ordered dict, sorting

\* A Python dict is a sequence of entries in insertion order, each carrying
\* its key in the field key.
Keys(map) == [i \in 1..Len(map) |-> map[i].key]

\* The position of key in map, 0 if absent.
IndexOfKey(map, key) ==
  IF \E i \in 1..Len(map) : map[i].key = key
  THEN CHOOSE i \in 1..Len(map) : map[i].key = key
  ELSE 0

\* map[key] = entry: an existing key keeps its position, a new key goes last.
DictSet(map, entry) ==
  LET i == IndexOfKey(map, entry.key)
  IN IF i = 0 THEN Append(map, entry) ELSE [map EXCEPT ![i] = entry]

\* The positions <<r, k>> of the entries of the lists lists[r], in the order
\* of "for xs in lists: for x in xs".
RECURSIVE PositionsFrom(_, _)
PositionsFrom(lists, r) ==
  IF r > Len(lists) THEN <<>>
  ELSE [k \in 1..Len(lists[r]) |-> <<r, k>>] \o PositionsFrom(lists, r + 1)

Positions(lists) == PositionsFrom(lists, 1)

\* ----------------------------------------------------------- personal info

\* _merge_personal_info: per field, the first truthy value in list order.
MergePersonalInfo(infos) ==
  [f \in PersonalFields |->
    IF \E i \in 1..Len(infos) : Truthy(infos[i][f])
    THEN infos[CHOOSE i \in 1..Len(infos) :
                 /\ Truthy(infos[i][f])
                 /\ \A j \in 1..(i - 1) : ~Truthy(infos[j][f])][f]
    ELSE None]

\* ------------------------------------------------------------------ skills

\* One iteration of the loop body of _merge_skills on skill_map.
SkillFold(skill_map, skill, threshold) ==
  LET normalized_name == Normalize(skill.name)
      m == IF skill_map # <<>>
           THEN ExtractOne(normalized_name, Keys(skill_map), threshold)
           ELSE 0
      matched_key == IF m = 0 THEN None ELSE skill_map[m].key
  IN IF Truthy(matched_key)
     THEN [skill_map EXCEPT
             ![m].frequency = @ + 1,
             ![m].confidence = IF @ >= skill.confidence THEN @ ELSE skill.confidence]
     ELSE DictSet(skill_map,
                  [key |-> normalized_name, name |-> skill.name,
                   category |-> skill.category, frequency |-> 1,
                   confidence |-> skill.confidence])

\* The Skill objects built from skill_map.values().
SkillValues(skill_map) ==
  [i \in 1..Len(skill_map) |->
     MkSkill(skill_map[i].name, skill_map[i].category,
             skill_map[i].frequency, skill_map[i].confidence)]

\* key(a) > key(b) for key = (frequency, confidence).
SkillKeyGreater(a, b) ==
  \/ a.frequency > b.frequency
  \/ a.frequency = b.frequency /\ a.confidence > b.confidence

\* list.sort(key, reverse=True) is stable: x goes after every element whose
\* key is >= its own.
RECURSIVE InsertSkill(_, _)
InsertSkill(sorted, x) ==
  IF sorted = <<>> THEN <<x>>
  ELSE IF SkillKeyGreater(x, Head(sorted)) THEN <<x>> \o sorted
  ELSE <<Head(sorted)>> \o InsertSkill(Tail(sorted), x)

RECURSIVE SortSkillsFrom(_, _, _)
SortSkillsFrom(xs, i, acc) ==
  IF i > Len(xs) THEN acc ELSE SortSkillsFrom(xs, i + 1, InsertSkill(acc, xs[i]))

Reverse(xs) == [i \in 1..Len(xs) |-> xs[Len(xs) + 1 - i]]

\* An ascending stable sort, reversed: entries equal on both keys come out
\* in reverse insertion order.
SortSkillsAscendingReversed(xs) == SortSkillsFrom(Reverse(xs), 1, <<>>)

\* merged_skills.sort(key=lambda s: (s.frequency, s.confidence), reverse=True)
SortSkills(xs) == SortSkillsFrom(xs, 1, <<>>)

\* -------------------------------------------------------------- experience

Underscore == <<"_">>

\* f"{exp.company.lower()}_{exp.title.lower()}_{exp.start_date or ''}"
Signature(exp) ==
  Lower(exp.company) \o Underscore \o Lower(exp.title) \o Underscore
    \o OrElse(exp.start_date, <<>>)

\* One iteration of the loop body of _merge_experience on the pair
\* (seen_signatures, merged_experience).
ExperienceFold(st, exp) ==
  IF Signature(exp) \notin st.seen
  THEN [seen |-> st.seen \cup {Signature(exp)}, merged |-> Append(st.merged, exp)]
  ELSE st

DateFloor == <<"0", "0", "0", "0">>

\* A sort key that puts a missing start_date above every date.
ExperienceKeyMissingFirst(e) ==
  <<e.current, OrElse(e.start_date, <<"|">>)>>

\* The sort key (e.current, e.start_date or "0000") of an experience.
ExperienceKey(e) == <<e.current, OrElse(e.start_date, DateFloor)>>

\* Tuple comparison a > b of two sort keys: False < True, then the strings.
ExperienceKeyGreater(a, b) ==
  \/ a[1] /\ ~b[1]
  \/ a[1] = b[1] /\ StrLess(b[2], a[2])

RECURSIVE InsertExperience(_, _)
InsertExperience(sorted, x) ==
  IF sorted = <<>> THEN <<x>>
  ELSE IF ExperienceKeyGreater(ExperienceKey(x), ExperienceKey(Head(sorted)))
       THEN <<x>> \o sorted
  ELSE <<Head(sorted)>> \o InsertExperience(Tail(sorted), x)

RECURSIVE SortExperienceFrom(_, _, _)
SortExperienceFrom(xs, i, acc) ==
  IF i > Len(xs) THEN acc
  ELSE SortExperienceFrom(xs, i + 1, InsertExperience(acc, xs[i]))

RECURSIVE InsertByDate(_, _)
InsertByDate(sorted, x) ==
  IF sorted = <<>> THEN <<x>>
  ELSE IF StrLess(ExperienceKey(Head(sorted))[2], ExperienceKey(x)[2])
       THEN <<x>> \o sorted
  ELSE <<Head(sorted)>> \o InsertByDate(Tail(sorted), x)

RECURSIVE SortByDateFrom(_, _, _)
SortByDateFrom(xs, i, acc) ==
  IF i > Len(xs) THEN acc ELSE SortByDateFrom(xs, i + 1, InsertByDate(acc, xs[i]))

\* A sort whose key leaves out e.current.
SortExperienceByDateOnly(xs) == SortByDateFrom(xs, 1, <<>>)

\* merged_experience.sort(key=..., reverse=True): stable, descending.
SortExperience(xs) == SortExperienceFrom(xs, 1, <<>>)

\* --------------------------------------------------------------- education

\* f"{edu.institution.lower()}_{edu.degree.lower()}"
EducationKey(edu) == Lower(edu.institution) \o Underscore \o Lower(edu.degree)

\* One iteration of the loop body of _merge_education.
EducationFold(st, edu) ==
  IF EducationKey(edu) \notin st.seen
  THEN [seen |-> st.seen \cup {EducationKey(edu)}, merged |-> Append(st.merged, edu)]
  ELSE st

\* ---------------------------------------------------------------- projects

\* list(set(xs)): the distinct elements of xs in the iteration order of the
\* set, which the interpreter's string hashing fixes for the process; order
\* is that order, a sequence holding every technology once.
RECURSIVE ListOfSet(_, _)
ListOfSet(elems, order) ==
  IF order = <<>> THEN <<>>
  ELSE (IF Head(order) \in elems THEN <<Head(order)>> ELSE <<>>)
         \o ListOfSet(elems, Tail(order))

Range(xs) == {xs[i] : i \in 1..Len(xs)}

Separator == <<" ", "|", " ">>

\* One iteration of the loop body of _merge_projects.  heap is the list of
\* input resumes, whose Project objects project_map refers to by position
\* ref = <<r, k>> (project_map[normalized_name] = proj stores the object
\* itself, not a copy); the result is the heap and the map after the step.
ProjectFold(heap, project_map, ref, threshold, order) ==
  LET proj == heap[ref[1]].projects[ref[2]]
      normalized_name == Normalize(proj.name)
      m == IF project_map # <<>>
           THEN ExtractOne(normalized_name, Keys(project_map), threshold)
           ELSE 0
      matched_key == IF m = 0 THEN None ELSE project_map[m].key
  IN IF Truthy(matched_key)
     THEN LET at == project_map[m].ref
              existing == heap[at[1]].projects[at[2]]
              description ==
                IF proj.description # existing.description
                THEN existing.description \o Separator \o proj.description
                ELSE existing.description
              technologies ==
                ListOfSet(Range(existing.technologies \o proj.technologies), order)
          IN [heap |-> [heap EXCEPT
                          ![at[1]].projects[at[2]].description = description,
                          ![at[1]].projects[at[2]].technologies = technologies],
              map |-> project_map]
     ELSE [heap |-> heap,
           map |-> DictSet(project_map, [key |-> normalized_name, ref |-> ref])]

\* list(project_map.values()): the Project objects, read from the heap.
ProjectValues(heap, project_map) ==
  [i \in 1..Len(project_map) |->
     heap[project_map[i].ref[1]].projects[project_map[i].ref[2]]]

\* ------------------------------------------------------------ orchestrator

\* xs[:n] for a Python list and an int n (a negative n counts from the end).
SliceTo(xs, n) ==
  IF n >= 0 THEN SubSeq(xs, 1, IF n <= Len(xs) THEN n ELSE Len(xs))
  ELSE SubSeq(xs, 1, IF Len(xs) + n >= 0 THEN Len(xs) + n ELSE 0)

\* A truncation that keeps the last max_skills entries.
ApplyMaxSkillsKeepingLast(merged_skills, settings) ==
  IF settings.max_skills # 0 /\ Len(merged_skills) > settings.max_skills
  THEN SubSeq(merged_skills,
              Len(merged_skills) + 1 - Len(SliceTo(merged_skills, settings.max_skills)),
              Len(merged_skills))
  ELSE merged_skills

\* "Apply settings": if settings.max_skills and len(merged_skills) >
\* settings.max_skills: merged_skills = merged_skills[:settings.max_skills]
ApplyMaxSkills(merged_skills, settings) ==
  IF settings.max_skills # 0 /\ Len(merged_skills) > settings.max_skills
  THEN SliceTo(merged_skills, settings.max_skills)
  ELSE merged_skills

\* A merge that leaves out the sections include_sections does not name.
MergedRecordOfIncluded(settings, personal, skills, experience, education, projects) ==
  LET included(section, value, empty) ==
        IF \E i \in 1..Len(settings.include_sections) :
             settings.include_sections[i] = section
        THEN value ELSE empty
  IN MkResume(included("personal_info", personal, EmptyPersonalInfo),
              included("skills", ApplyMaxSkills(skills, settings), <<>>),
              included("experience", experience, <<>>),
              included("education", education, <<>>),
              included("projects", projects, <<>>))

\* The ParsedResume that merge returns.
MergedRecord(settings, personal, skills, experience, education, projects) ==
  MkResume(personal, ApplyMaxSkills(skills, settings), experience, education,
           projects)

\* ---------------------------------------------------- merge, as a function

RECURSIVE MergeSkillsFrom(_, _, _, _)
MergeSkillsFrom(skill_lists, threshold, n, skill_map) ==
  IF n > Len(Positions(skill_lists)) THEN skill_map
  ELSE LET at == Positions(skill_lists)[n]
       IN MergeSkillsFrom(skill_lists, threshold, n + 1,
                          SkillFold(skill_map, skill_lists[at[1]][at[2]], threshold))

\* _merge_skills(skill_lists, threshold)
MergeSkills(skill_lists, threshold) ==
  SortSkills(SkillValues(MergeSkillsFrom(skill_lists, threshold, 1, <<>>)))

RECURSIVE MergeExperienceFrom(_, _, _)
MergeExperienceFrom(exp_lists, n, st) ==
  IF n > Len(Positions(exp_lists)) THEN st
  ELSE LET at == Positions(exp_lists)[n]
       IN MergeExperienceFrom(exp_lists, n + 1,
                              ExperienceFold(st, exp_lists[at[1]][at[2]]))

\* _merge_experience(exp_lists)
MergeExperience(exp_lists) ==
  SortExperience(MergeExperienceFrom(exp_lists, 1, [seen |-> {}, merged |-> <<>>]).merged)

RECURSIVE MergeEducationFrom(_, _, _)
MergeEducationFrom(edu_lists, n, st) ==
  IF n > Len(Positions(edu_lists)) THEN st
  ELSE LET at == Positions(edu_lists)[n]
       IN MergeEducationFrom(edu_lists, n + 1,
                             EducationFold(st, edu_lists[at[1]][at[2]]))

\* _merge_education(edu_lists)
MergeEducation(edu_lists) ==
  MergeEducationFrom(edu_lists, 1, [seen |-> {}, merged |-> <<>>]).merged

ProjectLists(heap) == [r \in 1..Len(heap) |-> heap[r].projects]

RECURSIVE MergeProjectsFrom(_, _, _, _)
MergeProjectsFrom(st, threshold, order, n) ==
  IF n > Len(Positions(ProjectLists(st.heap))) THEN st
  ELSE MergeProjectsFrom(
         ProjectFold(st.heap, st.map, Positions(ProjectLists(st.heap))[n],
                     threshold, order),
         threshold, order, n + 1)

\* _merge_projects(proj_lists, threshold), on the objects of heap.
MergeProjects(heap, threshold, order) ==
  LET st == MergeProjectsFrom([heap |-> heap, map |-> <<>>], threshold, order, 1)
  IN ProjectValues(st.heap, st.map)

\* ResumeMerger.merge(resumes, settings): the record returned.
Merge(rs, settings, order) ==
  MergedRecord(
    settings,
    MergePersonalInfo([r \in 1..Len(rs) |-> rs[r].personal_info]),
    MergeSkills([r \in 1..Len(rs) |-> rs[r].skills], settings.deduplicate_threshold),
    MergeExperience([r \in 1..Len(rs) |-> rs[r].experience]),
    MergeEducation([r \in 1..Len(rs) |-> rs[r].education]),
    MergeProjects(rs, settings.deduplicate_threshold, order))

\* ------------------------------------------------------------------ parser

\* str.split(sep) for a separator of one character.
RECURSIVE SplitFrom(_, _, _, _)
SplitFrom(s, sep, parts, part) ==
  IF s = <<>> THEN Append(parts, part)
  ELSE IF Head(s) = sep THEN SplitFrom(Tail(s), sep, Append(parts, part), <<>>)
  ELSE SplitFrom(Tail(s), sep, parts, Append(part, Head(s)))

Split(s, sep) == SplitFrom(s, sep, <<>>, <<>>)

\* c in s, for a character c.
Contains(s, c) == \E i \in 1..Len(s) : s[i] = c

IsDigit(c) == c \in {"0", "1", "2", "3", "4", "5", "6", "7", "8", "9"}

\* re.search(r'\d{4}', line)
HasYear(line) ==
  \E i \in 1..(Len(line) - 3) : \A k \in 0..3 : IsDigit(line[i + k])

Unknown == <<"U", "n", "k", "n", "o", "w", "n">>

\* title=line.split('|')[0].strip() if '|' in line else line
ExperienceTitle(line) ==
  IF Contains(line, "|") THEN Strip(Split(line, "|")[1]) ELSE line

\* company=line.split('|')[1].strip() if '|' in line and
\* len(line.split('|')) > 1 else "Unknown"
ExperienceCompany(line) ==
  IF Contains(line, "|") /\ Len(Split(line, "|")) > 1
  THEN Strip(Split(line, "|")[2]) ELSE Unknown

\* Experience(title=..., company=..., description=[])
NewExperience(line) ==
  MkExperience(ExperienceTitle(line), ExperienceCompany(line), None, None, FALSE)

\* A flush that drops the entry in progress.
FlushDropping(experiences, current_exp) == experiences

\* if current_exp: experiences.append(current_exp); current_exp is <<>> for
\* None, or <<the Experience>>.
Flush(experiences, current_exp) ==
  IF current_exp # <<>> THEN Append(experiences, current_exp[1]) ELSE experiences

\* The body of the loop over the lines, for one line as split off.
ParseLineFold(st, raw) ==
  LET line == Strip(raw)
  IN IF line = <<>> THEN st
     ELSE IF HasYear(line)
     THEN [experiences |-> Flush(st.experiences, st.current_exp),
           current_exp |-> <<NewExperience(line)>>]
     ELSE IF st.current_exp # <<>>
     THEN [experiences |-> st.experiences,
           current_exp |-> <<[st.current_exp[1] EXCEPT
                                !.description = Append(@, line)]>>]
     ELSE st

\* ------------------------------------------------------------------ inputs

\* The longest resume list of a request.
MaxResumes == 2

Techs == {<<"x">>, <<"y">>}

\* The iteration orders a set of technologies can have.
TechOrders == {<< <<"x">>, <<"y">> >>, << <<"y">>, <<"x">> >>}

general == <<"a">>
web == <<"b">>

SkillSet ==
  { MkSkill(<<"a", "b">>, general, 1, 90),
    MkSkill(<<"A", "B", " ">>, general, 1, 100),
    MkSkill(<<"a", "c">>, web, 1, 90),
    MkSkill(<<"a", "b", "c">>, web, 1, 50),
    MkSkill(<<" ">>, general, 1, 90),
    MkSkill(<<>>, general, 5, 100) }

ExperienceSet ==
  { MkExperience(<<"b">>, <<"A">>, <<"x">>, <<"J", "a">>, FALSE),
    MkExperience(<<"B">>, <<"a">>, None, <<"J", "a">>, TRUE),
    MkExperience(<<"b">>, <<"a">>, None, <<"j", "a">>, FALSE),
    MkExperience(<<"c">>, <<"a", "_", "b">>, None, None, FALSE),
    MkExperience(<<"b", "_", "c">>, <<"a">>, <<"y">>, <<>>, FALSE),
    MkExperience(<<"c">>, <<"c">>, None, <<"0">>, FALSE),
    MkExperience(<<"c">>, <<"c">>, None, <<"2", "0">>, TRUE) }

EducationSet ==
  { MkEducation(<<"b">>, <<"A">>),
    MkEducation(<<"B">>, <<"a">>),
    MkEducation(<<"c">>, <<"a">>) }

ProjectSet ==
  { MkProject(<<"a", "b">>, <<"x">>, << <<"x">> >>),
    MkProject(<<"A", "B", " ">>, <<"y">>, << <<"y">> >>),
    MkProject(<<"a", "b">>, <<"x">>, << <<"y">>, <<"x">> >>),
    MkProject(<<>>, <<"x">>, <<>>),
    MkProject(<<" ">>, <<"y">>, << <<"x">> >>) }

\* Resumes that differ in one section only: none, one or two entries.
SkillResumes ==
  { MkResume(EmptyPersonalInfo, l, <<>>, <<>>, <<>>) :
      l \in {<<>>} \cup {<<x>> : x \in SkillSet}
            \cup { << MkSkill(<<"a", "b">>, general, 1, 90), MkSkill(<<"a", "c">>, web, 1, 90) >>,
                   << MkSkill(<<" ">>, general, 1, 90), MkSkill(<<>>, general, 5, 100) >> } }

ExperienceResumes ==
  { MkResume(EmptyPersonalInfo, <<>>, l, <<>>, <<>>) :
      l \in {<<>>} \cup {<<x>> : x \in ExperienceSet}
            \cup { << MkExperience(<<"c">>, <<"c">>, None, <<"0">>, FALSE),
                      MkExperience(<<"B">>, <<"a">>, None, <<"J", "a">>, TRUE) >>,
                   << MkExperience(<<"c">>, <<"a", "_", "b">>, None, None, FALSE),
                      MkExperience(<<"b">>, <<"a">>, None, <<"j", "a">>, FALSE) >> } }

EducationResumes ==
  { MkResume(EmptyPersonalInfo, <<>>, <<>>, l, <<>>) :
      l \in {<<>>} \cup {<<x>> : x \in EducationSet} }

ProjectResumes ==
  { MkResume(EmptyPersonalInfo, <<>>, <<>>, <<>>, l) :
      l \in {<<>>} \cup {<<x>> : x \in ProjectSet}
            \cup { << MkProject(<<>>, <<"x">>, <<>>),
                      MkProject(<<" ">>, <<"y">>, << <<"x">> >>) >> } }

\* Resumes with every section filled.
FullResumes ==
  { MkResume([EmptyPersonalInfo EXCEPT !["name"] = <<"a">>],
             << MkSkill(<<"a", "b">>, general, 1, 90), MkSkill(<<"a", "c">>, web, 1, 90) >>,
             << MkExperience(<<"b">>, <<"A">>, <<"x">>, <<"J", "a">>, FALSE) >>,
             << MkEducation(<<"b">>, <<"A">>) >>,
             << MkProject(<<"a", "b">>, <<"x">>, << <<"x">> >>) >>),
    MkResume([EmptyPersonalInfo EXCEPT !["name"] = <<"b">>, !["email"] = <<"c">>],
             << MkSkill(<<"A", "B", " ">>, general, 1, 100) >>,
             << MkExperience(<<"c">>, <<"c">>, None, <<"2", "0">>, TRUE) >>,
             << MkEducation(<<"B">>, <<"a">>) >>,
             << MkProject(<<"A", "B", " ">>, <<"y">>, << <<"y">> >>) >>) }

\* Lists of 0..MaxResumes resumes of S.
RECURSIVE ListsUpTo(_, _)
ListsUpTo(S, n) ==
  IF n = 0 THEN {<<>>}
  ELSE LET shorter == ListsUpTo(S, n - 1)
       IN shorter \cup {Append(l, x) : l \in {k \in shorter : Len(k) = n - 1}, x \in S}

Thresholds == {0, 50, 51, DefaultThreshold}
MaxSkillsValues == {-1, 0, 1, 2, DefaultMaxSkills}
SectionChoices == {AllSections, <<"skills">>}
SortModes == {"date", "relevance"}

AllSettings ==
  { MkSettings(sec, ms, sb, th) :
      sec \in SectionChoices, ms \in MaxSkillsValues, sb \in SortModes, th \in Thresholds }

\* The requests: each varies the resumes of one section and the settings
\* that section reads, or combines full resumes with every setting.
Requests ==
  ({[resumes |-> l, settings |-> s] :
      l \in ListsUpTo(SkillResumes, MaxResumes),
      s \in {MkSettings(AllSections, DefaultMaxSkills, "date", th) : th \in Thresholds}
            \cup {MkSettings(AllSections, ms, "date", DefaultThreshold) : ms \in MaxSkillsValues}})
  \cup
  ({[resumes |-> l, settings |-> s] :
      l \in ListsUpTo(ExperienceResumes, MaxResumes),
      s \in {MkSettings(AllSections, DefaultMaxSkills, sb, DefaultThreshold) : sb \in SortModes}})
  \cup
  ({[resumes |-> l, settings |-> DefaultSettings] :
      l \in ListsUpTo(EducationResumes, MaxResumes)})
  \cup
  ({[resumes |-> l, settings |-> s] :
      l \in ListsUpTo(ProjectResumes, MaxResumes),
      s \in {MkSettings(AllSections, DefaultMaxSkills, "date", th) : th \in {0, DefaultThreshold}}})
  \cup
  ({[resumes |-> l, settings |-> s] :
      l \in ListsUpTo(FullResumes, MaxResumes),
      s \in {t \in AllSettings : t.deduplicate_threshold \in {0, DefaultThreshold}
                                 /\ t.max_skills \in {1, DefaultMaxSkills}}})

\* The longest experience text, in lines.
MaxLines == 4

\* Lines of an experience section, as split off: date lines with and without
\* "|", description lines, blank lines, a line of digits with no run of four.
LineSet ==
  { <<"b", " ", "|", " ", "A", " ", "2", "0", "2", "0">>,
    <<"2", "0", "2", "0">>,
    <<"a", "|", "b", "|", "2", "0", "1", "9">>,
    <<" ", "x">>,
    <<"2", "0", "2", " ", "0", "|">>,
    <<" ">>,
    <<>> }

\* '\n'.join(ls)
RECURSIVE JoinLines(_)
JoinLines(ls) ==
  IF Len(ls) = 1 THEN ls[1]
  ELSE ls[1] \o <<"\n">> \o JoinLines(Tail(ls))

\* The texts of 1..MaxLines lines.
ExperienceTexts == {JoinLines(ls) : ls \in ListsUpTo(LineSet, MaxLines) \ {<<>>}}

\* What re.search gives for the section: None, or the text of group 1.
Matches == {None} \cup ExperienceTexts

\* ------------------------------------------------------------------- state

VARIABLES
  hash_order,         \* the process's set-iteration order of technology strings
  entry,              \* how merge was entered: "none", "api" (POST /api/merge), "merge" (a direct call)
  request,            \* the resumes and settings as passed, at the time of the call
  resumes,            \* the caller's resume objects, as they are now
  pc,                 \* "idle", "rejected", or the part of merge being run, or "done"
  n,                  \* the position of the running loop in Positions(...)
  merged_personal,
  skill_map,          \* _merge_skills: skill_map
  skill_history,      \* per folded skill mention: the key it fuzzy-matched, or its own key if none, and its confidence
  merged_skills,
  seen_signatures,    \* _merge_experience: seen_signatures
  merged_experience,
  seen,               \* _merge_education: seen
  merged_education,
  project_map,        \* _merge_projects: project_map, its values references <<r, k>> into resumes
  merged_projects,
  result,             \* <<>>, or <<the ParsedResume returned>>
  parse_pc,           \* _parse_experience: "idle", "lines" (in the loop) or "return"
  lines,              \* _parse_experience: lines
  line_no,            \* how many of lines the loop has taken
  current_exp,        \* _parse_experience: current_exp, <<>> for None or <<the Experience>>
  experiences         \* _parse_experience: experiences

merge_vars ==
  <<hash_order, entry, request, resumes, pc, n, merged_personal, skill_map,
    skill_history, merged_skills, seen_signatures, merged_experience, seen,
    merged_education, project_map, merged_projects, result>>

parse_vars == <<parse_pc, lines, line_no, current_exp, experiences>>

vars == <<merge_vars, parse_vars>>

NoRequest == [resumes |-> <<>>, settings |-> DefaultSettings]

\* Nothing in progress: no request, no locals.
Cleared ==
  /\ entry = "none"
  /\ request = NoRequest
  /\ resumes = <<>>
  /\ pc = "idle"
  /\ n = 1
  /\ merged_personal = EmptyPersonalInfo
  /\ skill_map = <<>>
  /\ skill_history = <<>>
  /\ merged_skills = <<>>
  /\ seen_signatures = {}
  /\ merged_experience = <<>>
  /\ seen = {}
  /\ merged_education = <<>>
  /\ project_map = <<>>
  /\ merged_projects = <<>>
  /\ result = <<>>

\* No parse in progress.
ParserIdle ==
  /\ parse_pc = "idle"
  /\ lines = <<>>
  /\ line_no = 0
  /\ current_exp = <<>>
  /\ experiences = <<>>

Init ==
  /\ hash_order \in TechOrders
  /\ Cleared
  /\ ParserIdle

SkillLists == [r \in 1..Len(resumes) |-> resumes[r].skills]
ExperienceLists == [r \in 1..Len(resumes) |-> resumes[r].experience]
EducationLists == [r \in 1..Len(resumes) |-> resumes[r].education]

locals ==
  <<skill_map, skill_history, merged_skills, seen_signatures, merged_experience,
    seen, merged_education, project_map, merged_projects, result>>

\* merge(resumes, settings) is entered: "Merge each section" starts with
\* the personal info.
EnterMerge(req) ==
  /\ request' = req
  /\ resumes' = req.resumes
  /\ merged_personal' =
       MergePersonalInfo([r \in 1..Len(req.resumes) |-> req.resumes[r].personal_info])
  /\ pc' = "skills"
  /\ n' = 1
  /\ UNCHANGED locals

\* A guard that lets a single resume through.
TooFewOffByOne(req) == Len(req.resumes) < 1

\* The guard of the endpoint: len(request.resumes) < 2 raises HTTP 400.
TooFew(req) == Len(req.resumes) < 2

\* POST /api/merge: merge_resumes(request).
MergeRequest ==
  /\ pc = "idle"
  /\ parse_pc = "idle"
  /\ \E req \in Requests :
       /\ entry' = "api"
       /\ IF TooFew(req)
          THEN /\ pc' = "rejected"
               /\ request' = req
               /\ UNCHANGED <<resumes, n, merged_personal, locals>>
          ELSE EnterMerge(req)
  /\ UNCHANGED hash_order
  /\ UNCHANGED parse_vars

\* ResumeMerger.merge(resumes, settings), called on the merger itself.
MergeCall ==
  /\ pc = "idle"
  /\ parse_pc = "idle"
  /\ \E req \in Requests :
       /\ entry' = "merge"
       /\ EnterMerge(req)
  /\ UNCHANGED hash_order
  /\ UNCHANGED parse_vars

\* The key a skill mention fuzzy-matches in skill_map (its own normalized
\* name if none does), with its confidence.
Mention(map, skill, threshold) ==
  LET m == IF map # <<>> THEN ExtractOne(Normalize(skill.name), Keys(map), threshold)
           ELSE 0
  IN [key |-> IF m = 0 THEN Normalize(skill.name) ELSE map[m].key,
      confidence |-> skill.confidence]

\* _merge_skills: one skill of one resume.
SkillStep ==
  /\ pc = "skills"
  /\ n <= Len(Positions(SkillLists))
  /\ LET at == Positions(SkillLists)[n]
         skill == SkillLists[at[1]][at[2]]
         threshold == request.settings.deduplicate_threshold
     IN /\ skill_map' = SkillFold(skill_map, skill, threshold)
        /\ skill_history' = Append(skill_history, Mention(skill_map, skill, threshold))
  /\ n' = n + 1
  /\ UNCHANGED <<hash_order, entry, request, resumes, pc, merged_personal,
                 merged_skills, seen_signatures, merged_experience, seen,
                 merged_education, project_map, merged_projects, result>>
  /\ UNCHANGED parse_vars

\* _merge_skills: the loops are over; build, sort and return the list.
SkillsReturn ==
  /\ pc = "skills"
  /\ n > Len(Positions(SkillLists))
  /\ merged_skills' = SortSkills(SkillValues(skill_map))
  /\ pc' = "experience"
  /\ n' = 1
  /\ UNCHANGED <<hash_order, entry, request, resumes, merged_personal, skill_map,
                 skill_history, seen_signatures, merged_experience, seen,
                 merged_education, project_map, merged_projects, result>>
  /\ UNCHANGED parse_vars

\* _merge_experience: one experience of one resume.
ExperienceStep ==
  /\ pc = "experience"
  /\ n <= Len(Positions(ExperienceLists))
  /\ LET at == Positions(ExperienceLists)[n]
         st == ExperienceFold([seen |-> seen_signatures, merged |-> merged_experience],
                              ExperienceLists[at[1]][at[2]])
     IN /\ seen_signatures' = st.seen
        /\ merged_experience' = st.merged
  /\ n' = n + 1
  /\ UNCHANGED <<hash_order, entry, request, resumes, pc, merged_personal, skill_map,
                 skill_history, merged_skills, seen, merged_education, project_map,
                 merged_projects, result>>
  /\ UNCHANGED parse_vars

\* _merge_experience: the loops are over; sort and return.
ExperienceReturn ==
  /\ pc = "experience"
  /\ n > Len(Positions(ExperienceLists))
  /\ merged_experience' = SortExperience(merged_experience)
  /\ pc' = "education"
  /\ n' = 1
  /\ UNCHANGED <<hash_order, entry, request, resumes, merged_personal, skill_map,
                 skill_history, merged_skills, seen_signatures, seen,
                 merged_education, project_map, merged_projects, result>>
  /\ UNCHANGED parse_vars

\* _merge_education: one education of one resume.
EducationStep ==
  /\ pc = "education"
  /\ n <= Len(Positions(EducationLists))
  /\ LET at == Positions(EducationLists)[n]
         st == EducationFold([seen |-> seen, merged |-> merged_education],
                             EducationLists[at[1]][at[2]])
     IN /\ seen' = st.seen
        /\ merged_education' = st.merged
  /\ n' = n + 1
  /\ UNCHANGED <<hash_order, entry, request, resumes, pc, merged_personal, skill_map,
                 skill_history, merged_skills, seen_signatures, merged_experience,
                 project_map, merged_projects, result>>
  /\ UNCHANGED parse_vars

\* _merge_education returns.
EducationReturn ==
  /\ pc = "education"
  /\ n > Len(Positions(EducationLists))
  /\ pc' = "projects"
  /\ n' = 1
  /\ UNCHANGED <<hash_order, entry, request, resumes, merged_personal, skill_map,
                 skill_history, merged_skills, seen_signatures, merged_experience,
                 seen, merged_education, project_map, merged_projects, result>>
  /\ UNCHANGED parse_vars

\* _merge_projects: one project of one resume.
ProjectStep ==
  /\ pc = "projects"
  /\ n <= Len(Positions(ProjectLists(resumes)))
  /\ LET st == ProjectFold(resumes, project_map, Positions(ProjectLists(resumes))[n],
                           request.settings.deduplicate_threshold, hash_order)
     IN /\ resumes' = st.heap
        /\ project_map' = st.map
  /\ n' = n + 1
  /\ UNCHANGED <<hash_order, entry, request, pc, merged_personal, skill_map,
                 skill_history, merged_skills, seen_signatures, merged_experience,
                 seen, merged_education, merged_projects, result>>
  /\ UNCHANGED parse_vars

\* _merge_projects returns list(project_map.values()).
ProjectsReturn ==
  /\ pc = "projects"
  /\ n > Len(Positions(ProjectLists(resumes)))
  /\ merged_projects' = ProjectValues(resumes, project_map)
  /\ pc' = "settings"
  /\ UNCHANGED <<hash_order, entry, request, resumes, n, merged_personal, skill_map,
                 skill_history, merged_skills, seen_signatures, merged_experience,
                 seen, merged_education, project_map, result>>
  /\ UNCHANGED parse_vars

\* merge: "Apply settings" and return the ParsedResume.
MergeReturn ==
  /\ pc = "settings"
  /\ result' = <<MergedRecord(request.settings, merged_personal, merged_skills,
                              merged_experience, merged_education, merged_projects)>>
  /\ pc' = "done"
  /\ UNCHANGED <<hash_order, entry, request, resumes, n, merged_personal, skill_map,
                 skill_history, merged_skills, seen_signatures, merged_experience,
                 seen, merged_education, project_map, merged_projects>>
  /\ UNCHANGED parse_vars

\* The call is over (the response is sent, or the caller has the record):
\* nothing of it is kept.
Finish ==
  /\ pc \in {"done", "rejected"}
  /\ entry' = "none"
  /\ request' = NoRequest
  /\ resumes' = <<>>
  /\ pc' = "idle"
  /\ n' = 1
  /\ merged_personal' = EmptyPersonalInfo
  /\ skill_map' = <<>>
  /\ skill_history' = <<>>
  /\ merged_skills' = <<>>
  /\ seen_signatures' = {}
  /\ merged_experience' = <<>>
  /\ seen' = {}
  /\ merged_education' = <<>>
  /\ project_map' = <<>>
  /\ merged_projects' = <<>>
  /\ result' = <<>>
  /\ UNCHANGED hash_order
  /\ UNCHANGED parse_vars

\* _parse_experience is entered: the section is searched for, its text
\* split into lines.
ParseExperience ==
  /\ pc = "idle"
  /\ parse_pc = "idle"
  /\ \E match \in Matches :
       IF match = None
       THEN /\ parse_pc' = "return"
            /\ lines' = <<>>
       ELSE /\ parse_pc' = "lines"
            /\ lines' = Split(match, "\n")
  /\ line_no' = 0
  /\ current_exp' = <<>>
  /\ experiences' = <<>>
  /\ UNCHANGED merge_vars

\* _parse_experience: one line of the section.
ParseLine ==
  /\ parse_pc = "lines"
  /\ line_no < Len(lines)
  /\ LET st == ParseLineFold([experiences |-> experiences, current_exp |-> current_exp],
                             lines[line_no + 1])
     IN /\ experiences' = st.experiences
        /\ current_exp' = st.current_exp
  /\ line_no' = line_no + 1
  /\ UNCHANGED <<parse_pc, lines>>
  /\ UNCHANGED merge_vars

\* _parse_experience: the lines are over; the last entry is added.
ParseFlush ==
  /\ parse_pc = "lines"
  /\ line_no = Len(lines)
  /\ experiences' = Flush(experiences, current_exp)
  /\ parse_pc' = "return"
  /\ UNCHANGED <<lines, line_no, current_exp>>
  /\ UNCHANGED merge_vars

\* _parse_experience returns experiences: nothing of the call is kept.
ParseReturn ==
  /\ parse_pc = "return"
  /\ parse_pc' = "idle"
  /\ lines' = <<>>
  /\ line_no' = 0
  /\ current_exp' = <<>>
  /\ experiences' = <<>>
  /\ UNCHANGED merge_vars

Next ==
  \/ MergeRequest
  \/ MergeCall
  \/ SkillStep
  \/ SkillsReturn
  \/ ExperienceStep
  \/ ExperienceReturn
  \/ EducationStep
  \/ EducationReturn
  \/ ProjectStep
  \/ ProjectsReturn
  \/ MergeReturn
  \/ Finish
  \/ ParseExperience
  \/ ParseLine
  \/ ParseFlush
  \/ ParseReturn

Spec == Init /\ [][Next]_vars

\* ------------------------------------------------------------------ claims

Max(a, b) == IF a >= b THEN a ELSE b
Min(a, b) == IF a <= b THEN a ELSE b

\* merge has run to its end.
Returned == pc = "done"

\* C1, as stated: ResumeMerger.merge, however it is called, fails on a list
\* of 0 or 1 resumes (no section is merged, no record is produced) and only
\* on such a list.
C1_MergeChecksCardinality ==
  entry # "none" => (Len(request.resumes) < 2 <=> pc = "rejected")

\* C1, amended: the cardinality check is the endpoint's.  A POST /api/merge
\* with 0 or 1 resumes is rejected before merge is entered: nothing is
\* merged and no record is produced; one with 2 or more resumes is never
\* rejected.  ResumeMerger.merge itself never rejects a list: called with 0
\* or 1 resumes it merges and returns a record.
C1_EndpointChecksCardinality ==
  /\ entry = "api" => (Len(request.resumes) < 2 <=> pc = "rejected")
  /\ pc = "rejected" =>
       /\ result = <<>>
       /\ resumes = <<>>
       /\ skill_map = <<>> /\ merged_skills = <<>>
       /\ merged_experience = <<>> /\ merged_education = <<>>
       /\ project_map = <<>> /\ merged_projects = <<>>
  /\ entry = "merge" => pc # "rejected"
  /\ Returned => Len(result) = 1

\* A request with a single resume has been rejected.
C1_Witness == pc = "rejected" /\ entry = "api" /\ Len(request.resumes) = 1

\* C2: when merge has returned, every input resume equals its value before
\* the call.
C2_InputsUnchanged == Returned => resumes = request.resumes

\* The mentions of skill_history folded into key.
MentionsOf(key) == {k \in 1..Len(skill_history) : skill_history[k].key = key}

\* C3: at every step of _merge_skills, the aggregate of each canonical key
\* has frequency = the number of mentions folded into the key so far (the
\* one that seeded it and those that fuzzy-matched it) and confidence = the
\* greatest confidence among them.
C3_FrequencyCountsMentions ==
  \A i \in 1..Len(skill_map) :
    LET mentions == MentionsOf(skill_map[i].key)
    IN /\ skill_map[i].frequency = Cardinality(mentions)
       /\ \E k \in mentions : skill_map[i].confidence = skill_history[k].confidence
       /\ \A k \in mentions : skill_map[i].confidence >= skill_history[k].confidence

\* C3 where no canonical key is the empty string (an observation on the
\* model, not the claim).
C3_HoldsWithoutEmptyKey ==
  (\A i \in 1..Len(skill_map) : skill_map[i].key # <<>>) => C3_FrequencyCountsMentions

\* The existing keys that score best against name, if the best score is at
\* least threshold: the positions whose score is >= threshold and that no
\* other position beats.
BestMatches(map, name, threshold) ==
  {i \in 1..Len(map) :
     /\ ScoreAtLeast(Ratio(name, map[i].key), threshold)
     /\ \A j \in 1..Len(map) : ~ScoreGreater(Ratio(name, map[j].key), Ratio(name, map[i].key))}

\* The skill that a step of _merge_skills folds.
CurrentSkill == LET at == Positions(SkillLists)[n] IN SkillLists[at[1]][at[2]]

\* C4: in every step of _merge_skills, if the best score of the new name
\* against the existing keys is >= the threshold, the skill is folded into a
\* best-scoring key (frequency + 1, max confidence) and no entry is created;
\* if it is below, a new entry is appended.
C4_ThresholdBoundary ==
  [][(pc = "skills" /\ n' = n + 1) =>
       LET best == BestMatches(skill_map, Normalize(CurrentSkill.name),
                               request.settings.deduplicate_threshold)
       IN IF best # {}
          THEN /\ Len(skill_map') = Len(skill_map)
               /\ \E i \in best :
                    /\ skill_map'[i].key = skill_map[i].key
                    /\ skill_map'[i].name = skill_map[i].name
                    /\ skill_map'[i].frequency = skill_map[i].frequency + 1
                    /\ skill_map'[i].confidence =
                         Max(skill_map[i].confidence, CurrentSkill.confidence)
                    /\ \A j \in 1..Len(skill_map) : j # i => skill_map'[j] = skill_map[j]
          ELSE /\ Len(skill_map') = Len(skill_map) + 1
               /\ SubSeq(skill_map', 1, Len(skill_map)) = skill_map
               /\ skill_map'[Len(skill_map')].key = Normalize(CurrentSkill.name)
               /\ skill_map'[Len(skill_map')].frequency = 1
     ]_vars

\* _merge_skills has returned its list.
SkillsMerged == pc \in {"experience", "education", "projects", "settings", "done"}

\* The position in skill_map of the entry that a merged skill came from.
InsertionRank(skill) == IndexOfKey(skill_map, Normalize(skill.name))

\* C5: the list _merge_skills returns holds every aggregate once, in
\* descending order of (frequency, confidence), entries equal on both in the
\* order their keys were first inserted into the map.
C5_SkillsRanked ==
  SkillsMerged =>
    /\ Len(merged_skills) = Len(skill_map)
    /\ \A i \in 1..Len(skill_map) :
         \E j \in 1..Len(merged_skills) : merged_skills[j] = SkillValues(skill_map)[i]
    /\ \A j, k \in 1..Len(merged_skills) :
         j < k =>
           /\ merged_skills[j].frequency >= merged_skills[k].frequency
           /\ merged_skills[j].frequency = merged_skills[k].frequency
                => merged_skills[j].confidence >= merged_skills[k].confidence
           /\ (/\ merged_skills[j].frequency = merged_skills[k].frequency
               /\ merged_skills[j].confidence = merged_skills[k].confidence)
                => InsertionRank(merged_skills[j]) < InsertionRank(merged_skills[k])

\* A merge whose ranked list has two entries equal on both keys, and an
\* entry ranked above one inserted before it.
C5_Witness ==
  /\ Returned
  /\ \E j, k \in 1..Len(merged_skills) :
       /\ j < k
       /\ merged_skills[j].frequency = merged_skills[k].frequency
       /\ merged_skills[j].confidence = merged_skills[k].confidence
  /\ \E j, k \in 1..Len(merged_skills) :
       j < k /\ InsertionRank(merged_skills[j]) > InsertionRank(merged_skills[k])

\* C6, as stated: whatever max_skills is, the returned skills are at most
\* max_skills.
C6_AtMostMaxSkills ==
  Returned => Len(result[1].skills) <= request.settings.max_skills

\* C6, amended: the returned skills are always a leading segment of the
\* ranked list (truncation comes after ranking).  For max_skills >= 1 their
\* number is min(max_skills, the number ranked), hence <= max_skills; for
\* max_skills = 0 the list is not truncated; for max_skills = -k < 0 the last
\* k entries are dropped.
C6_LeadingSegmentOfRanked ==
  Returned =>
    LET out == result[1].skills
        max_skills == request.settings.max_skills
    IN /\ Len(out) <= Len(merged_skills)
       /\ out = SubSeq(merged_skills, 1, Len(out))
       /\ max_skills >= 1 => Len(out) = Min(max_skills, Len(merged_skills))
       /\ max_skills = 0 => out = merged_skills
       /\ max_skills < 0 => Len(out) = Max(0, Len(merged_skills) + max_skills)

\* A merge that ranked more skills than a positive max_skills and cut them.
C6_Witness ==
  /\ Returned
  /\ request.settings.max_skills >= 1
  /\ Len(merged_skills) > request.settings.max_skills
  /\ Len(result[1].skills) = request.settings.max_skills

\* C4 where no canonical key is the empty string (an observation on the
\* model, not the claim).
C4_HoldsWithoutEmptyKey ==
  [][(\A i \in 1..Len(skill_map) : skill_map[i].key # <<>>) =>
       (((pc = "skills" /\ n' = n + 1) =>
          LET best == BestMatches(skill_map, Normalize(CurrentSkill.name),
                                  request.settings.deduplicate_threshold)
          IN IF best # {}
             THEN /\ Len(skill_map') = Len(skill_map)
                  /\ \E i \in best :
                       skill_map'[i].frequency = skill_map[i].frequency + 1
             ELSE Len(skill_map') = Len(skill_map) + 1))
     ]_vars

\* _merge_experience has returned its list.
ExperienceMerged == pc \in {"education", "projects", "settings", "done"}

\* The experiences passed to merge, in input order.
InputExperience ==
  LET lists == [r \in 1..Len(request.resumes) |-> request.resumes[r].experience]
  IN [p \in 1..Len(Positions(lists)) |->
        lists[Positions(lists)[p][1]][Positions(lists)[p][2]]]

\* (company, title, start_date), all three lower-cased, a missing start_date
\* the empty string.
LoweredKey(e) ==
  <<Lower(e.company), Lower(e.title),
    Lower(IF e.start_date = None THEN <<>> ELSE e.start_date)>>

\* C7: two input experiences with the same lower-cased (company, title,
\* start_date) are one entry of the merged list, the first of them in input
\* order, field for field.
C7_ExactDedup ==
  ExperienceMerged =>
    \A p, q \in 1..Len(InputExperience) :
      (p < q /\ LoweredKey(InputExperience[p]) = LoweredKey(InputExperience[q])) =>
        LET same == {j \in 1..Len(merged_experience) :
                       LoweredKey(merged_experience[j]) = LoweredKey(InputExperience[p])}
            first == CHOOSE f \in 1..Len(InputExperience) :
                       /\ LoweredKey(InputExperience[f]) = LoweredKey(InputExperience[p])
                       /\ \A g \in 1..(f - 1) :
                            LoweredKey(InputExperience[g]) # LoweredKey(InputExperience[p])
        IN /\ Cardinality(same) = 1
           /\ \A j \in same : merged_experience[j] = InputExperience[first]

\* C8, as stated: current entries first, and within the current and within
\* the other entries the start_date strings descend.
C8_OrderedByStartDate ==
  ExperienceMerged =>
    \A i, j \in 1..Len(merged_experience) :
      i < j =>
        /\ merged_experience[j].current => merged_experience[i].current
        /\ (/\ merged_experience[i].current = merged_experience[j].current
            /\ merged_experience[i].start_date # None
            /\ merged_experience[j].start_date # None)
             => ~StrLess(merged_experience[i].start_date, merged_experience[j].start_date)

\* The date an entry is sorted by: its start_date, "0000" if the start_date
\* is missing or the empty string.
SortDate(e) ==
  IF e.start_date = None \/ e.start_date = <<>> THEN <<"0", "0", "0", "0">>
  ELSE e.start_date

\* C8, amended: current entries first, and within the current and within
\* the other entries the dates descend as raw strings, where the date of an
\* entry whose start_date is missing or empty is "0000".
C8_OrderedBySortDate ==
  ExperienceMerged =>
    \A i, j \in 1..Len(merged_experience) :
      i < j =>
        /\ merged_experience[j].current => merged_experience[i].current
        /\ merged_experience[i].current = merged_experience[j].current
             => ~StrLess(SortDate(merged_experience[i]), SortDate(merged_experience[j]))

\* A merged list with a current entry before another entry, two entries of
\* one group with different dates, and the input order changed.
C8_Witness ==
  /\ Returned
  /\ \E i, j \in 1..Len(merged_experience) :
       i < j /\ merged_experience[i].current /\ ~merged_experience[j].current
  /\ \E i, j \in 1..Len(merged_experience) :
       /\ i < j
       /\ merged_experience[i].current = merged_experience[j].current
       /\ StrLess(SortDate(merged_experience[j]), SortDate(merged_experience[i]))
  /\ \E i \in 1..Len(merged_experience) : merged_experience[i] # InputExperience[i]

\* The project that a step of _merge_projects folds.
CurrentProject ==
  LET at == Positions(ProjectLists(resumes))[n] IN resumes[at[1]].projects[at[2]]

\* The Project object that entry i of project_map refers to, in heap.
Aggregate(heap, map, i) == heap[map[i].ref[1]].projects[map[i].ref[2]]

\* C9: in every step of _merge_projects, if the project fuzzy-matches an
\* existing aggregate, that aggregate keeps its description if the new one
\* is equal and else gets " | " and the new one appended, and its
\* technologies become the union; if it matches none, it is stored as it is
\* under a new key.
C9_DescriptionsAccumulate ==
  [][(pc = "projects" /\ n' = n + 1) =>
       LET best == BestMatches(project_map, Normalize(CurrentProject.name),
                               request.settings.deduplicate_threshold)
       IN IF best # {}
          THEN /\ Keys(project_map') = Keys(project_map)
               /\ \E i \in best :
                    LET old == Aggregate(resumes, project_map, i)
                        new == Aggregate(resumes', project_map', i)
                    IN /\ new.description =
                            IF CurrentProject.description = old.description
                            THEN old.description
                            ELSE old.description \o Separator \o CurrentProject.description
                       /\ Range(new.technologies) =
                            Range(old.technologies) \cup Range(CurrentProject.technologies)
          ELSE /\ Keys(project_map') = Append(Keys(project_map), Normalize(CurrentProject.name))
               /\ Aggregate(resumes', project_map', Len(project_map')) = CurrentProject
     ]_vars

\* C9 where no canonical key is the empty string (an observation on the
\* model, not the claim).
C9_HoldsWithoutEmptyKey ==
  [][(\A i \in 1..Len(project_map) : project_map[i].key # <<>>) =>
       (((pc = "projects" /\ n' = n + 1) =>
          LET best == BestMatches(project_map, Normalize(CurrentProject.name),
                                  request.settings.deduplicate_threshold)
          IN IF best # {}
             THEN /\ Keys(project_map') = Keys(project_map)
                  /\ \E i \in best :
                       LET old == Aggregate(resumes, project_map, i)
                           new == Aggregate(resumes', project_map', i)
                       IN /\ new.description =
                               IF CurrentProject.description = old.description
                               THEN old.description
                               ELSE old.description \o Separator \o CurrentProject.description
                          /\ Range(new.technologies) =
                               Range(old.technologies) \cup Range(CurrentProject.technologies)
             ELSE Keys(project_map') = Append(Keys(project_map), Normalize(CurrentProject.name))))
     ]_vars

\* The settings that differ from settings in include_sections and
\* sort_experience_by at most.
SameButSectionsAndSort(settings) ==
  { MkSettings(sections, settings.max_skills, sort_by, settings.deduplicate_threshold) :
      sections \in SectionChoices \cup {<<>>, <<"experience", "projects">>},
      sort_by \in SortModes }

\* C10: the record merge returned is the record merge returns for the same
\* resumes under every settings value that differs in include_sections and
\* sort_experience_by only.
C10_SectionsAndSortModeIgnored ==
  Returned =>
    \A other \in SameButSectionsAndSort(request.settings) :
      Merge(request.resumes, other, hash_order) = result[1]

\* A merge under sort mode "relevance" and include_sections = ["skills"]
\* that returned experiences (not in input order) and projects.
C10_Witness ==
  /\ Returned
  /\ request.settings.sort_experience_by = "relevance"
  /\ request.settings.include_sections = <<"skills">>
  /\ Len(result[1].experience) >= 2
  /\ result[1].experience # InputExperience
  /\ result[1].projects # <<>>

\* The exact key of an experience: (company, title, start_date), company
\* and title lower-cased, a missing start_date the empty string.
ExactKey(e) ==
  <<Lower(e.company), Lower(e.title),
    IF e.start_date = None THEN <<>> ELSE e.start_date>>

\* C11: an experience is skipped only if an earlier one has its exact key:
\* every input entry whose key differs from the key of every earlier entry
\* is in the merged list, which so holds exactly one entry per distinct key
\* of the input.
C11_OneEntryPerExactKey ==
  ExperienceMerged =>
    \A p \in 1..Len(InputExperience) :
      /\ (\A q \in 1..(p - 1) : ExactKey(InputExperience[q]) # ExactKey(InputExperience[p]))
           => \E j \in 1..Len(merged_experience) : merged_experience[j] = InputExperience[p]
      /\ Cardinality({j \in 1..Len(merged_experience) :
                        ExactKey(merged_experience[j]) = ExactKey(InputExperience[p])}) = 1

\* C11 where no company and no title holds "_" (an observation on the
\* model, not the claim).
C11_HoldsWithoutUnderscore ==
  (\A p \in 1..Len(InputExperience) :
     /\ \A c \in 1..Len(InputExperience[p].company) : InputExperience[p].company[c] # "_"
     /\ \A c \in 1..Len(InputExperience[p].title) : InputExperience[p].title[c] # "_")
  => C11_OneEntryPerExactKey

\* C12, as stated: among the entries that are not current, every one with
\* a start_date precedes every one without.
C12_MissingStartDateLast ==
  ExperienceMerged =>
    \A i, j \in 1..Len(merged_experience) :
      (/\ ~merged_experience[i].current
       /\ ~merged_experience[j].current
       /\ merged_experience[i].start_date # None
       /\ merged_experience[j].start_date = None)
        => i < j

\* C12, amended: among the entries that are not current, every one whose
\* start_date is a greater string than "0000" precedes every one without a
\* start_date, and every one whose start_date is not empty and a smaller
\* string than "0000" follows every one without a start_date.
C12_MissingStartDateSortsAsFloor ==
  ExperienceMerged =>
    \A i, j \in 1..Len(merged_experience) :
      (/\ ~merged_experience[i].current
       /\ ~merged_experience[j].current
       /\ merged_experience[i].start_date # None
       /\ merged_experience[j].start_date = None)
        => /\ StrLess(<<"0", "0", "0", "0">>, merged_experience[i].start_date) => i < j
           /\ (/\ merged_experience[i].start_date # <<>>
               /\ StrLess(merged_experience[i].start_date, <<"0", "0", "0", "0">>)) => j < i

\* A merge whose input starts with an entry without a start_date, and whose
\* merged list has it after a dated entry and before one dated below "0000".
C12_Witness ==
  /\ Returned
  /\ Len(InputExperience) >= 1
  /\ InputExperience[1].start_date = None
  /\ \E i, j, k \in 1..Len(merged_experience) :
       /\ i < j /\ j < k
       /\ ~merged_experience[i].current /\ ~merged_experience[k].current
       /\ merged_experience[j] = InputExperience[1]
       /\ StrLess(<<"0", "0", "0", "0">>, merged_experience[i].start_date)
       /\ merged_experience[k].start_date # None
       /\ StrLess(merged_experience[k].start_date, <<"0", "0", "0", "0">>)

\* Any two distinct keys of map score below threshold against each other.
PairwiseBelow(map, threshold) ==
  \A i, j \in 1..Len(map) :
    i # j => ~ScoreAtLeast(Ratio(map[i].key, map[j].key), threshold)

\* C14: at every step of _merge_skills and of _merge_projects, any two
\* distinct canonical keys of the map have a similarity score strictly
\* below the threshold.
C14_KeysPairwiseBelowThreshold ==
  /\ PairwiseBelow(skill_map, request.settings.deduplicate_threshold)
  /\ PairwiseBelow(project_map, request.settings.deduplicate_threshold)

\* C14 where no canonical key is the empty string (an observation on the
\* model, not the claim).
C14_HoldsWithoutEmptyKey ==
  /\ (\A i \in 1..Len(skill_map) : skill_map[i].key # <<>>)
       => PairwiseBelow(skill_map, request.settings.deduplicate_threshold)
  /\ (\A i \in 1..Len(project_map) : project_map[i].key # <<>>)
       => PairwiseBelow(project_map, request.settings.deduplicate_threshold)

\* The lines the loop has taken that are not blank, without their
\* surrounding whitespace, in order.
TakenLines ==
  LET NotBlank(l) == Strip(l) # <<>>
      kept == SelectSeq(SubSeq(lines, 1, line_no), NotBlank)
  IN [i \in 1..Len(kept) |-> Strip(kept[i])]

\* The entries made so far: the flushed ones and, while the loop runs, the
\* one in progress.
Produced ==
  IF parse_pc = "return" THEN experiences ELSE experiences \o current_exp

\* The position of the first "|" of line.
FirstBar(line) ==
  CHOOSE i \in 1..Len(line) : line[i] = "|" /\ \A j \in 1..(i - 1) : line[j] # "|"

\* The text before the first "|" of line, or the whole line if there is none.
RawTitle(line) ==
  IF Contains(line, "|") THEN SubSeq(line, 1, FirstBar(line) - 1) ELSE line

\* The text after the first "|" of line up to the next "|" or the end of the
\* line, or "Unknown" if there is no "|".
RawCompany(line) ==
  IF Contains(line, "|")
  THEN LET rest == SubSeq(line, FirstBar(line) + 1, Len(line))
       IN IF Contains(rest, "|") THEN SubSeq(rest, 1, FirstBar(rest) - 1) ELSE rest
  ELSE Unknown

TrimmedTitle(line) == Strip(RawTitle(line))
TrimmedCompany(line) == Strip(RawCompany(line))

\* The entries made so far are, in order, one per taken line with a 4-digit
\* run, with the title and company that Title and Company give for that
\* line and, as description, the taken lines after it up to the next line
\* with a 4-digit run; at the return no entry is left in progress.
EntriesFollowLines(Title(_), Company(_)) ==
  LET L == TakenLines
      dates == {i \in 1..Len(L) : \E d \in 1..(Len(L[i]) - 3) :
                                    \A k \in 0..3 : IsDigit(L[i][d + k])}
      DateLine(k) == CHOOSE i \in dates : Cardinality({j \in dates : j <= i}) = k
      NextDate(i) == IF \E j \in dates : j > i
                     THEN CHOOSE j \in dates : j > i /\ \A h \in dates : h > i => j <= h
                     ELSE Len(L) + 1
  IN /\ Len(Produced) = Cardinality(dates)
     /\ \A k \in 1..Len(Produced) :
          /\ Produced[k].title = Title(L[DateLine(k)])
          /\ Produced[k].company = Company(L[DateLine(k)])
          /\ Produced[k].description = SubSeq(L, DateLine(k) + 1, NextDate(DateLine(k)) - 1)
     /\ parse_pc = "return" => Len(experiences) = Cardinality(dates)

\* C13, as stated: at every step of the loop over the non-blank lines of the
\* experience text there is one entry per line with a 4-digit run, in line
\* order, its title the text before the first "|" and its company the text
\* after it as second segment (the whole line and "Unknown" without "|"),
\* its description the other lines up to the next such line, in order; lines
\* before the first such line are in no entry; the last entry is flushed at
\* the end.
C13_EntriesWithRawSegments == EntriesFollowLines(RawTitle, RawCompany)

\* C13, amended: the same, the title and the company being the first and
\* the second "|"-separated segment of the line without their surrounding
\* whitespace.
C13_EntriesWithTrimmedSegments == EntriesFollowLines(TrimmedTitle, TrimmedCompany)

\* A parse of four lines that returns two entries: a first line that is
\* dropped, a line with "|" whose title is trimmed, a description line, and
\* a second line with a 4-digit run.
C13_Witness ==
  /\ parse_pc = "return"
  /\ Len(lines) = 4
  /\ Len(TakenLines) = 4
  /\ ~HasYear(TakenLines[1])
  /\ Contains(TakenLines[2], "|")
  /\ Len(experiences) = 2
  /\ experiences[1].title # RawTitle(TakenLines[2])
  /\ experiences[1].description = <<TakenLines[3]>>
  /\ HasYear(TakenLines[4])

====
